---- MODULE Spec2Model ----
(***************************************************************************)
(* POE2 Spam Culler: the log tailer (CoreSpamMonitor.check_for_spam and    *)
(* the standalone client's SpamMonitor.check_for_spam), the classifier     *)
(* (analyse_spam_content), the plugin broadcast (call_plugin_method) and   *)
(* the poll loop (main), with the game client writing the log              *)
(* concurrently.  Text is a sequence of one-character strings, so that the *)
(* regular expressions of compile_patterns are matched character by        *)
(* character as Python's re module matches them.                           *)
(***************************************************************************)
EXTENDS Integers, Sequences, FiniteSets, TLC

(***************************************************************************)
(* Characters and character classes of the patterns.                       *)
(***************************************************************************)
Digits == {"0", "1", "2", "3", "4", "5", "6", "7", "8", "9"}
LowerSeq == <<"a", "b", "c", "d", "e", "f", "g", "h", "i", "j", "k", "l", "m", "n", "o", "p", "q", "r", "s", "t", "u", "v", "w", "x", "y", "z">>
UpperSeq == <<"A", "B", "C", "D", "E", "F", "G", "H", "I", "J", "K", "L", "M", "N", "O", "P", "Q", "R", "S", "T", "U", "V", "W", "X", "Y", "Z">>
LowerLetters == {LowerSeq[i] : i \in 1..26}
UpperLetters == {UpperSeq[i] : i \in 1..26}
AlphaNum == Digits \cup LowerLetters \cup UpperLetters
WS == {" ", "\t", "\n", "\r", "\f"}

\* str.lower() on one character (ASCII).
ToLowerChar(c) ==
    IF c \in UpperLetters
    THEN LowerSeq[CHOOSE i \in 1..26 : UpperSeq[i] = c]
    ELSE c

\* message.lower()
lower(s) == [i \in 1..Len(s) |-> ToLowerChar(s[i])]

\* s[a:b] of Python with 1-based a and exclusive b.
Slice(s, a, b) == SubSeq(s, a, b - 1)

\* The element of a one-element set.  Only({F(v) : v \in {e}}) is F(e) with e
\* evaluated once, the way a local variable of the code holds a value.
Only(S) == CHOOSE x \in S : TRUE

\* The literal lit occurs in s at position i (exact case).
LitAt(s, i, lit) ==
    /\ i >= 1
    /\ i + Len(lit) - 1 <= Len(s)
    /\ \A k \in 1..Len(lit) : s[i + k - 1] = lit[k]

\* The literal lit occurs in s at position i under the (?i) flag.
LitAtCI(s, i, lit) ==
    /\ i >= 1
    /\ i + Len(lit) - 1 <= Len(s)
    /\ \A k \in 1..Len(lit) : ToLowerChar(s[i + k - 1]) = ToLowerChar(lit[k])

\* s has a character of class C at position i.
ClassAt(s, i, C) == i >= 1 /\ i <= Len(s) /\ s[i] \in C

\* Greedy C*: the first position at or after i whose character is not in C.
SkipIn(s, i, C) ==
    LET stops == {j \in i..Len(s) : s[j] \notin C}
    IN  IF stops = {} THEN (IF i > Len(s) THEN i ELSE Len(s) + 1)
        ELSE CHOOSE j \in stops : \A k \in stops : j <= k

\* Greedy [^C]*: the first position at or after i whose character is in C.
SkipNotIn(s, i, C) ==
    LET stops == {j \in i..Len(s) : s[j] \in C}
    IN  IF stops = {} THEN (IF i > Len(s) THEN i ELSE Len(s) + 1)
        ELSE CHOOSE j \in stops : \A k \in stops : j <= k

(***************************************************************************)
(* compile_patterns: the literals of the five patterns.                    *)
(***************************************************************************)
MARKER == <<"[", "I", "N", "F", "O", " ", "C", "l", "i", "e", "n", "t">>
L_www == <<"w", "w", "w">>
L_com == <<"c", "o", "m">>
L_net == <<"n", "e", "t">>
L_org == <<"o", "r", "g">>
L_add == <<"a", "d", "d">>
L_discord == <<"d", "i", "s", "c", "o", "r", "d">>
L_ex == <<"e", "x">>
L_div == <<"d", "i", "v">>
L_coupon == <<"c", "o", "u", "p", "o", "n">>
L_code == <<"c", "o", "d", "e">>
L_off == <<"o", "f", "f">>
TLDs == <<L_com, L_net, L_org>>
Seps == {",", "."}

NoMatch == [ok |-> FALSE, end |-> 0, cap |-> <<>>]

\* from_pattern = \[INFO Client \d+\] ([^:]+): (.+)  tried at position i.
from_pattern_at(line, i) ==
    LET d0 == i + Len(MARKER) + 1
        d1 == SkipIn(line, d0, Digits)
        p0 == d1 + 2
        p1 == SkipNotIn(line, p0, {":"})
        m0 == p1 + 2
    IN  IF /\ LitAt(line, i, MARKER \o <<" ">>)
           /\ d1 > d0
           /\ LitAt(line, d1, <<"]", " ">>)
           /\ p1 > p0
           /\ LitAt(line, p1, <<":", " ">>)
           /\ m0 <= Len(line)
           /\ line[m0] # "\n"
        THEN [ok |-> TRUE,
              player |-> Slice(line, p0, p1),
              message |-> Slice(line, m0, SkipNotIn(line, m0, {"\n"}))]
        ELSE [ok |-> FALSE, player |-> <<>>, message |-> <<>>]

\* from_pattern.search(line): the leftmost match.
from_pattern_search(line) ==
    LET starts == {i \in 1..Len(line) : from_pattern_at(line, i).ok}
    IN  IF starts = {} THEN [ok |-> FALSE, player |-> <<>>, message |-> <<>>]
        ELSE from_pattern_at(line, CHOOSE i \in starts : \A k \in starts : i <= k)

\* '[INFO Client' in line
has_marker(line) == \E i \in 1..Len(line) : LitAt(line, i, MARKER)

\* Variant of strip_player: the name taken as from_pattern gives it.
strip_player_none(p) == p

\* re.sub(r'^[^a-zA-Z0-9]+', '', player_name)
strip_player(p) == Slice(p, SkipNotIn(p, 1, AlphaNum), Len(p) + 1)

\* str.splitlines() for text whose only line boundary is "\n": line k runs
\* from the character after newline k-1 up to newline k, and text after the
\* last newline is a line of its own.
splitlines(s) ==
    LET nl == {j \in 1..Len(s) : s[j] = "\n"}
        nth(k) == CHOOSE j \in nl : Cardinality({x \in nl : x <= j}) = k
        n == Cardinality(nl) + (IF Len(s) > 0 /\ s[Len(s)] # "\n" THEN 1 ELSE 0)
        first(k) == IF k = 1 THEN 1 ELSE nth(k - 1) + 1
        last(k) == IF k <= Cardinality(nl) THEN nth(k) ELSE Len(s) + 1
    IN  [k \in 1..n |-> Slice(s, first(k), last(k))]

(***************************************************************************)
(* The four category patterns, each tried at position i of the lowered     *)
(* message.  A result is [ok, end, cap]: end is the position after the     *)
(* match and cap what findall returns for it.                              *)
(***************************************************************************)

\* '|'.join(map(re.escape, spam_hosts)): the alternatives in iteration order;
\* an empty list joins to the empty pattern, which matches the empty string.
host_pattern(hosts) == IF hosts = <<>> THEN << <<>> >> ELSE hosts

\* (?:h1|h2|...)[,.](?:com|net|org) at position j: the first alternative
\* after which the rest of the pattern matches.
url_tail_at(hosts, s, j) ==
    LET alts == host_pattern(hosts)
        fits(k) == /\ LitAtCI(s, j, alts[k])
                   /\ ClassAt(s, j + Len(alts[k]), Seps)
                   /\ \E t \in 1..Len(TLDs) :
                         LitAtCI(s, j + Len(alts[k]) + 1, TLDs[t])
        good == {k \in 1..Len(alts) : fits(k)}
    IN  IF good = {} THEN 0
        ELSE LET k == CHOOSE x \in good : \A y \in good : x <= y
             IN  j + Len(alts[k]) + 1 + 3

\* (?i)(?:www[,.])?(?:hosts)[,.](?:com|net|org)
url_at(hosts, s, i) ==
    LET withWww == IF LitAtCI(s, i, L_www) /\ ClassAt(s, i + 3, Seps)
                   THEN url_tail_at(hosts, s, i + 4) ELSE 0
        e == IF withWww # 0 THEN withWww ELSE url_tail_at(hosts, s, i)
    IN  IF e = 0 THEN NoMatch
        ELSE [ok |-> TRUE, end |-> e, cap |-> Slice(s, i, e)]

\* discord[:.\s]*([a-zA-Z0-9]+) at position k.
discord_tail_at(s, k) ==
    LET h0 == SkipIn(s, k + Len(L_discord), {":", "."} \cup WS)
        h1 == SkipIn(s, h0, AlphaNum)
    IN  IF LitAtCI(s, k, L_discord) /\ h1 > h0
        THEN [ok |-> TRUE, end |-> h1, cap |-> Slice(s, h0, h1)]
        ELSE NoMatch

\* (?i)(?:add\s+)?discord[:.\s]*([a-zA-Z0-9]+)
discord_at(s, i) ==
    LET a1 == i + Len(L_add)
        a2 == SkipIn(s, a1, WS)
        withAdd == IF LitAtCI(s, i, L_add) /\ a2 > a1
                   THEN discord_tail_at(s, a2) ELSE NoMatch
    IN  IF withAdd.ok THEN withAdd ELSE discord_tail_at(s, i)

\* (?i)((?:ex|div)/\s*\d+(?:\.\d+)?)\s*\$
currency_at(s, i) ==
    LET k  == IF LitAtCI(s, i, L_ex) THEN i + Len(L_ex)
              ELSE IF LitAtCI(s, i, L_div) THEN i + Len(L_div) ELSE 0
        n0 == SkipIn(s, k + 1, WS)
        n1 == SkipIn(s, n0, Digits)
        f1 == SkipIn(s, n1 + 1, Digits)
        e  == IF ClassAt(s, n1, {"."}) /\ f1 > n1 + 1 THEN f1 ELSE n1
        d  == SkipIn(s, e, WS)
    IN  IF k # 0 /\ ClassAt(s, k, {"/"}) /\ n1 > n0 /\ ClassAt(s, d, {"$"})
        THEN [ok |-> TRUE, end |-> d + 1, cap |-> Slice(s, i, e)]
        ELSE NoMatch

\* (?:[^\d]+(\d+)%\s*off) after a code that ends before position e.
coupon_tail_at(s, e) ==
    LET g == SkipNotIn(s, e, Digits)
        h == SkipIn(s, g, Digits)
        o == SkipIn(s, h + 1, WS)
    IN  IF g > e /\ h > g /\ ClassAt(s, h, {"%"}) /\ LitAtCI(s, o, L_off)
        THEN [ok |-> TRUE, end |-> o + Len(L_off), cap |-> Slice(s, g, h)]
        ELSE NoMatch

\* (?i)(?:coupon|code)[\s:]*([a-z0-9]+)(?:[^\d]+(\d+)%\s*off): the code group
\* is greedy and gives characters back until the rest matches.
coupon_at(s, i) ==
    LET k  == IF LitAtCI(s, i, L_coupon) THEN i + Len(L_coupon)
              ELSE IF LitAtCI(s, i, L_code) THEN i + Len(L_code) ELSE 0
        c0 == SkipIn(s, k, WS \cup {":"})
        c1 == SkipIn(s, c0, AlphaNum)
        good == {e \in (c0 + 1)..c1 : coupon_tail_at(s, e).ok}
    IN  IF k = 0 \/ good = {} THEN NoMatch
        ELSE LET e == CHOOSE x \in good : \A y \in good : x >= y
                 t == coupon_tail_at(s, e)
             IN  [ok |-> TRUE, end |-> t.end, cap |-> <<Slice(s, c0, e), t.cap>>]

\* One pattern of a category tried at position i.
match_at(cat, hosts, s, i) ==
    CASE cat = "url"      -> url_at(hosts, s, i)
      [] cat = "discord"  -> discord_at(s, i)
      [] cat = "currency" -> currency_at(s, i)
      [] cat = "coupon"   -> coupon_at(s, i)

\* pattern.findall(s): the captures of the non-overlapping matches, scanned
\* from the left.  from[i] is the scan from position i on: it goes to the
\* first position at or after i where the pattern matches, takes the match
\* and goes on behind it.
findall(cat, hosts, s) ==
    LET from[i \in 1..(Len(s) + 1)] ==
            LET starts == {j \in i..Len(s) : match_at(cat, hosts, s, j).ok}
            IN  IF starts = {} THEN <<>>
                ELSE Only({<<m.cap>> \o from[IF m.end > m.start THEN m.end ELSE m.start + 1] :
                           m \in {[start |-> j, end |-> match_at(cat, hosts, s, j).end,
                                   cap |-> match_at(cat, hosts, s, j).cap] :
                                  j \in {CHOOSE x \in starts : \A y \in starts : x <= y}}})
    IN  from[1]

Categories == {"url", "discord", "currency", "coupon"}

\* Variants of spam_indicators: the coupon block adds its matches without
\* setting is_spam, and the four blocks chained with elif, so that only the
\* first category that matches is filled in.
spam_indicators_coupon_unflagged(found) ==
    [is_spam |-> \E cat \in Categories \ {"coupon"} : found[cat] # <<>>,
     detected_urls |-> found["url"],
     detected_discord |-> found["discord"],
     currency_offers |-> found["currency"],
     coupon_codes |-> found["coupon"]]
spam_indicators_first_only(found) ==
    [is_spam |-> \E cat \in Categories : found[cat] # <<>>,
     detected_urls |-> found["url"],
     detected_discord |-> IF found["url"] = <<>> THEN found["discord"] ELSE <<>>,
     currency_offers |-> IF found["url"] = <<>> /\ found["discord"] = <<>>
                         THEN found["currency"] ELSE <<>>,
     coupon_codes |-> IF found["url"] = <<>> /\ found["discord"] = <<>>
                         /\ found["currency"] = <<>>
                      THEN found["coupon"] ELSE <<>>]

\* The spam_indicators dict once every pattern has been applied.
spam_indicators(found) ==
    [is_spam |-> \E cat \in Categories : found[cat] # <<>>,
     detected_urls |-> found["url"],
     detected_discord |-> found["discord"],
     currency_offers |-> found["currency"],
     coupon_codes |-> found["coupon"]]

\* CoreSpamMonitor.analyse_spam_content(message) of a monitor compiled from
\* hosts: every pattern is applied to message.lower().
analyse_spam_content(hosts, message) ==
    Only({spam_indicators([cat \in Categories |-> findall(cat, hosts, message_lower)]) :
            message_lower \in {lower(message)}})

(***************************************************************************)
(* check_for_spam: what is done with the text a poll has read.             *)
(***************************************************************************)

\* The spam_report dict built for one line (the wall-clock timestamp is
\* left out).
spam_report(player_name, message_content, spam_analysis) ==
    [player |-> player_name, message |-> message_content, spam_details |-> spam_analysis]

\* Variant of is_candidate: the two tests left out.
is_candidate_any_line(line) == TRUE

\* A line passes both tests of the loop body: the marker and from_pattern.
is_candidate(line) == has_marker(line) /\ from_pattern_search(line).ok

\* The body of the loop for one line: the report built for it, if it is a
\* candidate whose analysis says spam.
line_report(hosts, line) ==
    IF ~has_marker(line) THEN <<>>
    ELSE Only({IF ~from_match.ok THEN <<>>
               ELSE Only({IF spam_analysis.is_spam
                          THEN <<spam_report(strip_player(from_match.player),
                                             from_match.message, spam_analysis)>>
                          ELSE <<>> :
                          spam_analysis \in {analyse_spam_content(hosts, from_match.message)}}) :
               from_match \in {from_pattern_search(line)}})

\* The first report of a sequence of per-line results, as a sequence of at
\* most one.
first_report(reps) ==
    LET spam == {k \in 1..Len(reps) : reps[k] # <<>>}
    IN  IF spam = {} THEN <<>> ELSE reps[CHOOSE k \in spam : \A j \in spam : k <= j]

\* CoreSpamMonitor.check_for_spam, the loop over new_content.splitlines():
\* the reports it hands to the caller.  The return statement sits inside the
\* loop, so the call ends at the first spam line.
core_scan(hosts, lines) ==
    first_report([k \in 1..Len(lines) |-> line_report(hosts, lines[k])])

\* SpamMonitor.check_for_spam of client.py, the same loop: it calls
\* self.analyze_spam_content, a method the class does not have, so the first
\* candidate line raises AttributeError and nothing is ever logged as spam.
client_raises(lines) == \E k \in 1..Len(lines) : is_candidate(lines[k])

\* The positions of the lines the loop of CoreSpamMonitor.check_for_spam
\* hands to analyse_spam_content: the candidates up to the line at which
\* the loop returns.
core_analysed(hosts, lines) ==
    Only({{k \in 1..Len(lines) : /\ is_candidate(lines[k])
                                 /\ \A j \in 1..(k - 1) : reps[j] = <<>>} :
          reps \in {[k \in 1..Len(lines) |-> line_report(hosts, lines[k])]}})

\* The positions of the lines a poll classifies: client.py never gets into
\* its classifier.
analysed_lines(monitor, hosts, content) ==
    IF monitor = "core" THEN core_analysed(hosts, splitlines(content)) ELSE {}

\* The reports a poll emits for the text it read.
scan(monitor, hosts, content) ==
    IF monitor = "core" THEN core_scan(hosts, splitlines(content)) ELSE <<>>

\* The exception the scan raises, "none" if it raises nothing.
scan_error(monitor, content) ==
    IF monitor = "client" /\ client_raises(splitlines(content)) THEN "attr" ELSE "none"

\* Variants of reset_on_truncation: the reset left out, and the test written
\* with <= in place of <.
reset_on_truncation_never(cur, last) == last
reset_on_truncation_on_equal(cur, last) == IF cur <= last THEN 0 ELSE last

\* if current_size < self.last_size: self.last_size = 0
reset_on_truncation(cur, last) == IF cur < last THEN 0 ELSE last

\* if current_size > self.last_size:
has_new_data(cur, last) == cur > last

\* file.seek(self.last_size); file.read(): seeking past the end is allowed
\* and reads nothing.
read_from(content, pos) == Slice(content, pos + 1, Len(content) + 1)

\* How far into the file the reads have got, after a read of n characters
\* from position pos.
read_end(high, pos, n) == IF n > 0 /\ pos + n > high THEN pos + n ELSE high

\* Variant of offset_on_io_error: the offset assigned before the read.
offset_on_io_error_advanced(last, cur) == cur

\* The offset left by a poll whose open or read raised: the assignment
\* self.last_size = current_size comes after file.read().
offset_on_io_error(last, cur) == last

\* except Exception as e: of check_for_spam catches every error of the try
\* block, so none reaches main.
escapes_check_for_spam(err) == FALSE

\* What can go wrong while main builds the monitor: load_spam_lists finds a
\* block-list file missing, or compile_patterns raises.
StartupFaults == {"none", "lists_missing", "compile_fails"}

\* Variant of startup_aborts: load_spam_lists logs the missing file and
\* goes on with an empty set.
startup_aborts_on_compile_only(fault) == fault = "compile_fails"

\* load_spam_lists and compile_patterns log and re-raise; SpamMonitor(logger)
\* sits in main's outer try, whose except logs "Fatal error" and raises.
startup_aborts(fault) == fault # "none"

\* What main logs for a startup that fails.
startup_log_lines(fault) ==
    CASE fault = "lists_missing" -> <<"Required file not found", "Fatal error">>
      [] fault = "compile_fails" -> <<"Error compiling patterns", "Fatal error">>
      [] fault = "log_missing"   -> <<"Log file not found">>
      [] OTHER                   -> <<>>

\* Variant of initial_offset: the offset left at the constructor's 0.
initial_offset_zero(size) == 0

\* monitor.last_size = log_path.stat().st_size
initial_offset(size) == size

\* main: await asyncio.sleep(0.1) after a call that returned,
\* await asyncio.sleep(5) after one that raised.
ShortInterval == 100
LongInterval == 5000
sleep_after(err) == IF escapes_check_for_spam(err) THEN LongInterval ELSE ShortInterval

\* Variant of loop_continues: an iteration that logged an error leaves the
\* loop.
loop_stops_on_error(err) == err = "none"

\* while True: with the try/except inside it: no outcome of an iteration
\* leaves the loop.
loop_continues(err) == TRUE

(***************************************************************************)
(* analyse_spam_content with its try/except, and the loop of               *)
(* check_for_spam over lines whose analysis may raise.  raises says that   *)
(* applying the rules to the message raises an Exception.                  *)
(***************************************************************************)

\* except Exception as e: ... return {'is_spam': False}
degraded_verdict == [is_spam |-> FALSE]

\* Variant of analysis_escapes: analyse_spam_content without its except
\* clause.
analysis_escapes_uncaught(raises) == raises

\* Whether an error raised while the rules are applied leaves
\* analyse_spam_content: the except clause catches every Exception.
analysis_escapes(raises) == FALSE

\* CoreSpamMonitor(logger, lists): the two block-lists as __init__ keeps
\* them.
monitor_of(hosts, handles) == [spam_hosts |-> hosts, spam_discord |-> handles]

\* analyse_spam_content(message), the try block and the except clause.
analyse_spam_content_guarded(hosts, message, raises) ==
    IF raises THEN degraded_verdict ELSE analyse_spam_content(hosts, message)

\* Variant of flagged_discord: only the mentions whose handle is on the
\* block-list are kept.
flagged_discord_on_list(handles, matches) ==
    SelectSeq(matches, LAMBDA h : \E k \in 1..Len(handles) : handles[k] = h)

\* The discord block of analyse_spam_content: every match of
\* discord_patterns is added to detected_discord; self.spam_discord is not
\* looked at.
flagged_discord(handles, matches) == matches

\* analyse_spam_content(message) on a monitor built from both block-lists.
verdict_of(mon, message, raises) ==
    IF raises THEN degraded_verdict
    ELSE Only({Only({spam_indicators(
                         [url      |-> v.detected_urls,
                          discord  |-> flagged_discord(mon.spam_discord, v.detected_discord),
                          currency |-> v.currency_offers,
                          coupon   |-> v.coupon_codes]) :
                     v \in {analyse_spam_content(hosts, message)}}) :
               hosts \in {mon.spam_hosts}})

\* The body of the loop for one line whose analysis may raise.
line_report_guarded(hosts, line, raises) ==
    IF ~has_marker(line) THEN <<>>
    ELSE Only({IF ~from_match.ok THEN <<>>
               ELSE Only({IF spam_analysis.is_spam
                          THEN <<spam_report(strip_player(from_match.player),
                                             from_match.message, spam_analysis)>>
                          ELSE <<>> :
                          spam_analysis \in {analyse_spam_content_guarded(
                                                 hosts, from_match.message, raises)}}) :
               from_match \in {from_pattern_search(line)}})

\* The lines at which an error leaves analyse_spam_content.
escaping(lines, faulty) ==
    {k \in 1..Len(lines) : /\ k \in faulty
                           /\ is_candidate(lines[k])
                           /\ analysis_escapes(TRUE)}

\* The loop of check_for_spam over lines of which those at the positions in
\* faulty make the rules raise: the loop runs up to the first line whose
\* error escapes the analysis.
core_scan_guarded(hosts, lines, faulty) ==
    LET esc == escaping(lines, faulty)
        n == IF esc = {} THEN Len(lines)
             ELSE (CHOOSE k \in esc : \A j \in esc : k <= j) - 1
    IN  first_report([k \in 1..n |-> line_report_guarded(hosts, lines[k], k \in faulty)])

\* The exception that ends the loop, "none" if the loop ends by itself or
\* by its return.
core_scan_guarded_error(hosts, lines, faulty) ==
    LET esc == escaping(lines, faulty)
        n == (CHOOSE k \in esc : \A j \in esc : k <= j) - 1
    IN  IF esc = {} THEN "none"
        ELSE IF first_report([k \in 1..n |->
                                 line_report_guarded(hosts, lines[k], k \in faulty)]) # <<>>
             THEN "none" ELSE "rule"

(***************************************************************************)
(* Messages and block-lists for the classifier on its own.  A message is   *)
(* at most MaxFragments fragments, one after the other.                    *)
(***************************************************************************)
F_url == <<"s", "c", "a", "m", ".", "c", "o", "m">>
F_discord == <<"D", "i", "s", "c", "o", "r", "d", ":", "Z">>
F_currency == <<"e", "x", "/", "1", "$">>
F_coupon == <<"c", "o", "d", "e", " ", "a", " ", "5", "%", " ", "o", "f", "f">>
F_tld == <<".", "c", "o", "m">>
F_long == <<"z", ".", "n", "e", "t", "z">>
F_plain == <<" ", "q">>
F_promo == <<"w", "w", "w", ".", "s", "c", "a", "m", ".", "c", "o", "m", " ", "c", "o", "d", "e", " ", "a", " ", "5", "%", " ", "o", "f", "f">>
Fragments == {F_url, F_discord, F_currency, F_coupon, F_tld, F_long, F_plain, F_promo}
MaxFragments == 2

H_scam == <<"s", "c", "a", "m">>
H_z == <<"z">>
\* Handles of spam_discord.txt.
D_z == <<"z">>
D_q == <<"q">>
HandleLists == {<<>>, <<D_z>>, <<D_q>>, <<D_q, D_z>>}

H_znetz == <<"z", ".", "n", "e", "t", "z">>
\* The sets spam_hosts may be, and for each the orders in which iterating
\* the set may yield it.
HostSets == {{}, {H_scam}, {H_z, H_znetz}}
orders(S) == {o \in UNION {[1..n -> S] : n \in {Cardinality(S)}} :
                 \A a, b \in 1..Cardinality(S) : a # b => o[a] # o[b]}

\* The fragments of fs one after the other.
concat(fs) ==
    LET starts == [k \in 1..Len(fs) |->
                      Cardinality(UNION {{<<j, c>> : c \in 1..Len(fs[j])} : j \in 1..(k - 1)})]
        total == IF fs = <<>> THEN 0 ELSE starts[Len(fs)] + Len(fs[Len(fs)])
    IN  [c \in 1..total |->
            LET k == CHOOSE j \in 1..Len(fs) : starts[j] < c /\ c <= starts[j] + Len(fs[j])
            IN  fs[k][c - starts[k]]]

Messages == {concat(fs) : fs \in UNION {[1..n -> Fragments] : n \in 0..MaxFragments}}

\* The two lines of a batch: a chat line carrying the message, and behind
\* it a chat line that is spam.
LinePrefix == <<"[", "I", "N", "F", "O", " ", "C", "l", "i", "e", "n", "t", " ", "1", "]", " ", "z", ":", " ">>
SpamTail == <<"[", "I", "N", "F", "O", " ", "C", "l", "i", "e", "n", "t", " ", "1", "]", " ", "*", "q", ":", " ", "e", "x", "/", "1", "$">>
batch(message) == <<LinePrefix \o message, SpamTail>>

(***************************************************************************)
(* The log lines the game client writes, and the bounds of the model.      *)
(***************************************************************************)
SpamLineA == <<"[", "I", "N", "F", "O", " ", "C", "l", "i", "e", "n", "t", " ", "1", "]", " ", "z", ":", " ", "d", "i", "s", "c", "o", "r", "d", ":", "z", "\n">>
SpamLineB == <<"[", "I", "N", "F", "O", " ", "C", "l", "i", "e", "n", "t", " ", "1", "]", " ", "*", "q", ":", " ", "e", "x", "/", "1", "$", "\n">>
HamLine == <<"[", "I", "N", "F", "O", " ", "C", "l", "i", "e", "n", "t", " ", "1", "]", " ", "z", ":", " ", "q", "\n">>
NoiseLine == <<"z", "\n">>
Chunks == {SpamLineA, SpamLineB, HamLine, NoiseLine}
\* A chat line the game client writes in two flushes, and the chunks of a
\* game client that flushes in the middle of lines.
FlushHead == <<"[", "I", "N", "F", "O", " ", "C", "l", "i", "e", "n", "t", " ", "1", "]", " ", "z", ":", " ", "d", "i", "s", "c">>
FlushTail == <<"o", "r", "d", ":", "z", "\n">>
FlushChunks == {FlushHead, FlushTail, NoiseLine}
\* A line with the marker that from_pattern does not match (no id), and the
\* chunks of a game client that writes such lines and other output between
\* the chat lines.
MarkedOnlyLine == <<"[", "I", "N", "F", "O", " ", "C", "l", "i", "e", "n", "t", "]", " ", "q", "\n">>
NoisyChunks == {NoiseLine, MarkedOnlyLine, SpamLineB}
\* What one write of the game client appends.
chunks_of(writer) ==
    CASE writer = "flushes" -> FlushChunks
      [] writer = "noisy"   -> NoisyChunks
      [] OTHER              -> Chunks
InitialContents == {<<>>, SpamLineA}
Hosts == << <<"s", "c", "a", "m">> >>

MaxAppends == 2
MaxRotations == 1

(***************************************************************************)
(* PluginLoader.call_plugin_method.  A handler of the registry is          *)
(* [name, kind]: kind "none" has no process_spam method, the other kinds   *)
(* say what process_spam does when called: return True ("true"), return    *)
(* False ("false") or raise an Exception ("raise").                        *)
(***************************************************************************)
HandlerKinds == {"true", "false", "raise", "none"}
MethodNames == {"process_spam", "on_shutdown"}
MaxPlugins == 3

\* hasattr(plugin, method_name)
exposes(h, method_name) == method_name = "process_spam" /\ h.kind # "none"

\* The line call_plugin_method logs for one call of a handler.
log_line(h) ==
    CASE h.kind = "true"  -> <<h.name, "processed successfully">>
      [] h.kind = "false" -> <<h.name, "failed to process">>
      [] h.kind = "raise" -> <<h.name, "Error calling">>

\* Variant of dispatch_goes_on: the try/except wraps the whole for loop, so
\* a handler that raises ends it.
dispatch_stops_on_raise(h) == h.kind # "raise"

\* The try/except wraps one call inside the for loop: whatever a handler
\* did, the loop goes on with the next handler.
dispatch_goes_on(h) == TRUE

\* Variant of registry_after_call: a handler that raised is taken out of
\* the registry.
registry_after_call_dropping(registry, method_name) ==
    SelectSeq(registry, LAMBDA h : ~(exposes(h, method_name) /\ h.kind = "raise"))

\* self.plugins once call_plugin_method has returned: the loop reads the
\* dict and assigns nothing to it.
registry_after_call(registry, method_name) == registry

\* The handlers call_plugin_method reaches, in registry order: those that
\* expose the method and are not behind a handler that ended the loop.
reached(registry, method_name) ==
    {k \in 1..Len(registry) :
        /\ exposes(registry[k], method_name)
        /\ \A j \in 1..(k - 1) :
              exposes(registry[j], method_name) => dispatch_goes_on(registry[j])}

\* Whether an exception leaves call_plugin_method.
broadcast_raises(registry, method_name) ==
    \E k \in reached(registry, method_name) :
        registry[k].kind = "raise" /\ ~dispatch_goes_on(registry[k])

\* The elements of a sequence at the positions in idx, in order.
pick(seq, idx) ==
    LET sel == SelectSeq([k \in 1..Len(seq) |-> <<k, seq[k]>>], LAMBDA x : x[1] \in idx)
    IN  [j \in 1..Len(sel) |-> sel[j][2]]

\* All registries of at most MaxPlugins handlers, named by their position.
Registries ==
    UNION {[1..n -> HandlerKinds] : n \in 0..MaxPlugins}

registry_of(kinds) == [k \in 1..Len(kinds) |-> [name |-> k, kind |-> kinds[k]]]

(***************************************************************************)
(* PluginLoader.load_plugin and load_enabled_plugins.  A plugin name is    *)
(* text; what loading it does is its outcome: the file is not there        *)
(* ("missing"), importlib gives no spec ("no_spec"), executing the module  *)
(* raises ("exec_raises"), the module has no Plugin class ("no_class"),    *)
(* Plugin(logger) raises ("ctor_raises"), or the instance is built ("ok"). *)
(***************************************************************************)
L_cplugin == <<"c", "p", "l", "u", "g", "i", "n", "_">>
L_cplugin_bare == <<"c", "p", "l", "u", "g", "i", "n">>
Name_a == <<"c", "p", "l", "u", "g", "i", "n", "_", "a">>
Name_b == <<"c", "p", "l", "u", "g", "i", "n", "_", "b">>
Name_bare == <<"c", "p", "l", "u", "g", "i", "n">>
Name_auto == <<"a", "u", "t", "o", "_", "i", "g", "n", "o", "r", "e">>
ConformingNames == {Name_a, Name_b}
PluginNames == ConformingNames \cup {Name_bare, Name_auto}
LoadOutcomes == {"ok", "missing", "no_spec", "exec_raises", "no_class", "ctor_raises"}
MaxRequested == 3

\* str.startswith(prefix)
startswith(s, prefix) == LitAt(s, 1, prefix)

\* Variant of conforms: the prefix tested without its underscore.
conforms_bare_prefix(plugin_name) == startswith(plugin_name, L_cplugin_bare)

\* plugin_name.startswith('cplugin_')
conforms(plugin_name) == startswith(plugin_name, L_cplugin)

\* What loading a name does.  The files of the names outside the naming
\* convention are there and would load.
outcome_of(world, plugin_name) ==
    IF plugin_name \in DOMAIN world THEN world[plugin_name] ELSE "ok"

\* load_plugin registers the instance only at the end of the try block.
registers(outcome) == outcome = "ok"

\* The line load_plugin logs.
load_log_line(outcome) ==
    CASE outcome = "ok"          -> "Successfully loaded plugin"
      [] outcome = "missing"     -> "not found"
      [] outcome = "no_spec"     -> "Could not load spec"
      [] outcome = "no_class"    -> "does not have required Plugin class"
      [] outcome = "exec_raises" -> "Error loading plugin"
      [] outcome = "ctor_raises" -> "Error loading plugin"

\* Variant of load_goes_on: load_plugin without its except clause, so a
\* module or constructor that raises ends load_enabled_plugins.
load_stops_on_raise(outcome) == outcome \notin {"exec_raises", "ctor_raises"}

\* load_plugin returns None on every failure, and the for loop of
\* load_enabled_plugins goes on with the next name.
load_goes_on(outcome) == TRUE

\* The positions of the requested names the for loop gets to.
visited(requested, world) ==
    {k \in 1..Len(requested) :
        \A j \in 1..(k - 1) :
            conforms(requested[j]) => load_goes_on(outcome_of(world, requested[j]))}

\* The positions of the names handed to load_plugin.
attempted(requested, world) ==
    {k \in visited(requested, world) : conforms(requested[k])}

\* self.plugins after the call on a new loader: the names whose load
\* succeeded, each once, in the order of their first insertion.
loaded_names(requested, world) ==
    LET ok == {k \in attempted(requested, world) :
                  registers(outcome_of(world, requested[k]))}
        firsts == {k \in ok : \A j \in ok : j < k => requested[j] # requested[k]}
    IN  pick(requested, firsts)

\* The lines load_enabled_plugins and load_plugin log, one per name the
\* loop gets to.
load_log(requested, world) ==
    LET at == pick([k \in 1..Len(requested) |-> k], visited(requested, world))
    IN  [j \in 1..Len(at) |->
            IF conforms(requested[at[j]])
            THEN <<requested[at[j]], load_log_line(outcome_of(world, requested[at[j]]))>>
            ELSE <<requested[at[j]], "Skipping">>]

\* Whether an exception leaves load_enabled_plugins.
load_raises(requested, world) ==
    \E k \in attempted(requested, world) : ~load_goes_on(outcome_of(world, requested[k]))

\* The lists of at most MaxRequested names a configuration may enable.
RequestLists == UNION {[1..n -> PluginNames] : n \in 0..MaxRequested}

(***************************************************************************)
(* community_plugins/auto_ignore.py: Plugin.process_spam.                  *)
(***************************************************************************)
L_ignore == <<"/", "i", "g", "n", "o", "r", "e", " ">>
KEY_ENTER == "Key.enter"
PlayerAlphabet == {"a", "Q", "_"}
MaxPlayerLen == 3
Players == UNION {[1..n -> PlayerAlphabet] : n \in 1..MaxPlayerLen}

\* The Pythons that may run the plugin: the f-string of line 33 reuses the
\* quote of its string inside the braces, which compiles from 3.12 on and
\* is a SyntaxError before.
Builds == {"py312", "py311"}
module_compiles(build) == build = "py312"

\* The names process_spam can resolve: its parameters and locals and the
\* globals of the module.
NamesInScope == {"self", "spam_results", "ignore_command", "char", "keyboard",
                 "press_enter", "Key", "Controller", "logging", "time", "Plugin"}

\* self.logger.info(f"Ignore request sent for user: {key}"): evaluating the
\* f-string raises NameError if key is not a name in scope.
log_line_raises == "key" \notin NamesInScope

\* The keys process_spam sends for a spam report: Enter, the characters of
\* the command, Enter.
ignore_keys(player) == <<KEY_ENTER>> \o L_ignore \o player \o <<KEY_ENTER>>

\* How a call of process_spam ends: "true" for return True, or the
\* exception that leaves it.
process_spam_result(report) ==
    IF report.spam_details.is_spam = FALSE THEN "true"
    ELSE IF log_line_raises THEN "NameError" ELSE "true"

\* The keys a call of process_spam has sent by the time it ends.
process_spam_keys(report) ==
    IF report.spam_details.is_spam = FALSE THEN <<>> ELSE ignore_keys(report.player)

\* What a call of process_spam logs.
process_spam_log(report) ==
    IF report.spam_details.is_spam = FALSE \/ log_line_raises THEN <<>>
    ELSE <<"Ignore request sent for user">>

(***************************************************************************)
(* State.                                                                  *)
(*   monitor       which class main drives: "client" is SpamMonitor of     *)
(*                 client.py, "core" is CoreSpamMonitor                    *)
(*   file_exists, file   the log file and its content                      *)
(*   gen, appends  how often the game client replaced the file, and how    *)
(*                 many chunks it wrote                                    *)
(*   last_size     self.last_size                                          *)
(*   pc            where main is: "startup", then the steps of one call of *)
(*                 check_for_spam ("exists", "stat", "open", "read"), then *)
(*                 "sleep"; "exit" after a failed startup, "stopped" after *)
(*                 cancellation                                            *)
(*   writer        how the game client writes: whole lines ("lines") or     *)
(*                 flushes that end in the middle of a line ("flushes"),   *)
(*                 or lines of other kinds among the chat ("noisy")        *)
(*   startup_error, startup_log   what went wrong before the loop, "none"  *)
(*                 if nothing did, and what main logged about it           *)
(*   current_size, new_content, emitted   locals and result of the call    *)
(*   analysed      the positions, among the lines of new_content, of the   *)
(*                 lines the call handed to analyse_spam_content           *)
(*   pre_size, truncated, error, did_read, seek_pos, size_at_read,         *)
(*   read_gen      what the current call has done so far                   *)
(*   rotated       the game client truncated or removed the file between   *)
(*                 the end of the previous call (or startup) and the start *)
(*                 of the current one                                      *)
(*   gen_seen      gen as it was when the last call ended                  *)
(*   high_water    how far into the current file the reads have got        *)
(*   prev_high     high_water as it was when the current call read         *)
(*   prev_error, quiet, no_change   the previous call's error, and whether *)
(*                 the file was left alone since the previous call ended   *)
(*   sleep_ms      the interval main last slept                            *)
(*   plugins       PluginLoader.plugins, in insertion order                *)
(*   bc_method, bc_calls, bc_log, bc_raised   the last call of             *)
(*                 call_plugin_method: its method name, the handlers it    *)
(*                 called, the lines it logged, whether it raised          *)
(*   requested, world   the names load_enabled_plugins is called with,     *)
(*                 and what loading each name of the convention does       *)
(*   ld_done, ld_attempted, ld_log, ld_raised   the call of                *)
(*                 load_enabled_plugins: made or not, the names it handed  *)
(*                 to load_plugin, the lines logged, whether it raised     *)
(*   cl_hosts, cl_hosts_again   spam_hosts in the order two compilations   *)
(*                 iterate it                                              *)
(*   cl_message, cl_done, cl_raises, cl_verdict, cl_verdict_again   a call *)
(*                 of analyse_spam_content: its message, made or not,      *)
(*                 whether the rules raised, what each compilation gave    *)
(*   cl_scanned, cl_faulty, cl_emitted, cl_error   a run of the loop of    *)
(*                 check_for_spam over batch(cl_message): made or not, the *)
(*                 lines whose analysis raised, the reports, the error     *)
(*   cl_handles, cl_handles_other   spam_discord of the first monitor and  *)
(*                 of a monitor built with the same hosts                  *)
(*   cl_verdict_listed, cl_verdict_other   what the monitors built with    *)
(*                 cl_handles and with cl_handles_other gave for           *)
(*                 cl_message                                              *)
(*   ai_report, ai_build   the report handed to auto_ignore's process_spam *)
(*                 and the Python that runs it                             *)
(*   ai_done, ai_keys, ai_result, ai_log   the call: made or not, the keys *)
(*                 it sent, how it ended, what it logged                   *)
(***************************************************************************)
VARIABLES monitor, writer, startup_error, startup_log, analysed, file_exists, file, gen, appends, startup_size,
          last_size, pc, current_size, new_content, emitted,
          pre_size, truncated, error, did_read, seek_pos, size_at_read, read_gen,
          prev_error, quiet, no_change, sleep_ms, cancelled,
          plugins, bc_method, bc_calls, bc_log, bc_raised,
          requested, world, ld_done, ld_attempted, ld_log, ld_raised,
          cl_hosts, cl_hosts_again, cl_message, cl_done, cl_raises, cl_verdict,
          cl_verdict_again, cl_scanned, cl_faulty, cl_emitted, cl_error,
          cl_handles, cl_handles_other, cl_verdict_listed, cl_verdict_other,
          gen_seen, high_water, rotated, prev_high,
          ai_report, ai_build, ai_done, ai_keys, ai_result, ai_log

envVars  == <<file_exists, file, gen, appends>>
callVars == <<current_size, new_content, emitted, analysed, pre_size, truncated, error,
              did_read, seek_pos, size_at_read, read_gen, rotated, prev_high>>
vars == <<monitor, writer, startup_error, startup_log, analysed, file_exists, file, gen, appends, startup_size,
          last_size, pc, current_size, new_content, emitted,
          pre_size, truncated, error, did_read, seek_pos, size_at_read, read_gen,
          prev_error, quiet, no_change, sleep_ms, cancelled,
          plugins, bc_method, bc_calls, bc_log, bc_raised,
          requested, world, ld_done, ld_attempted, ld_log, ld_raised,
          cl_hosts, cl_hosts_again, cl_message, cl_done, cl_raises, cl_verdict,
          cl_verdict_again, cl_scanned, cl_faulty, cl_emitted, cl_error,
          cl_handles, cl_handles_other, cl_verdict_listed, cl_verdict_other,
          gen_seen, high_water, rotated, prev_high,
          ai_report, ai_build, ai_done, ai_keys, ai_result, ai_log>>
bcVars == <<plugins, bc_method, bc_calls, bc_log, bc_raised>>
ldVars == <<requested, world, ld_done, ld_attempted, ld_log, ld_raised>>
clVars == <<cl_hosts, cl_hosts_again, cl_message, cl_done, cl_raises, cl_verdict,
            cl_verdict_again, cl_scanned, cl_faulty, cl_emitted, cl_error,
            cl_handles, cl_handles_other, cl_verdict_listed, cl_verdict_other>>
aiVars == <<ai_report, ai_build, ai_done, ai_keys, ai_result, ai_log>>

LoopPcs == {"exists", "stat", "open", "read", "sleep"}

\* The state after the monitor is constructed (last_size = 0), before main
\* looks at the log file.
TailerInit ==
    /\ gen = 0
    /\ appends = 0
    /\ startup_size = 0
    /\ last_size = 0
    /\ pc = "startup"
    /\ current_size = 0
    /\ new_content = <<>>
    /\ emitted = <<>>
    /\ analysed = {}
    /\ startup_error = "none"
    /\ startup_log = <<>>
    /\ pre_size = 0
    /\ truncated = FALSE
    /\ error = "none"
    /\ did_read = FALSE
    /\ seek_pos = 0
    /\ size_at_read = 0
    /\ read_gen = 0
    /\ rotated = FALSE
    /\ prev_high = 0
    /\ gen_seen = 0
    /\ high_water = 0
    /\ prev_error = "nopoll"
    /\ quiet = TRUE
    /\ no_change = FALSE
    /\ sleep_ms = 0
    /\ cancelled = FALSE

\* No call of call_plugin_method has been made.
NoBroadcast ==
    /\ bc_method = "none"
    /\ bc_calls = <<>>
    /\ bc_log = <<>>
    /\ bc_raised = FALSE

\* load_enabled_plugins has not been called.
NoLoad ==
    /\ requested = <<>>
    /\ world = [n \in ConformingNames |-> "ok"]
    /\ ld_done = FALSE
    /\ ld_attempted = <<>>
    /\ ld_log = <<>>
    /\ ld_raised = FALSE

\* The classifier has not been called.
NoClassify ==
    /\ cl_done = FALSE
    /\ cl_raises = FALSE
    /\ cl_verdict = degraded_verdict
    /\ cl_verdict_again = degraded_verdict
    /\ cl_verdict_listed = degraded_verdict
    /\ cl_verdict_other = degraded_verdict
    /\ cl_scanned = FALSE
    /\ cl_faulty = {}
    /\ cl_emitted = <<>>
    /\ cl_error = "none"

\* process_spam of auto_ignore has not been called.
NoIgnore ==
    /\ ai_report = [player |-> <<>>, spam_details |-> [is_spam |-> FALSE]]
    /\ ai_build = "py312"
    /\ ai_done = FALSE
    /\ ai_keys = <<>>
    /\ ai_result = "none"
    /\ ai_log = <<>>

\* No message is at hand for the classifier on its own.
NoMessage ==
    /\ cl_hosts = Hosts
    /\ cl_hosts_again = Hosts
    /\ cl_handles = <<>>
    /\ cl_handles_other = <<>>
    /\ cl_message = <<>>
    /\ NoClassify

\* The poll loop on its own: either monitor, the log file present or not,
\* empty or holding a line from an earlier session; no plugins.
Init ==
    /\ monitor \in {"core", "client"}
    /\ writer = "lines"
    /\ file_exists \in BOOLEAN
    /\ file \in (IF file_exists THEN InitialContents ELSE {<<>>})
    /\ TailerInit
    /\ plugins = <<>>
    /\ NoBroadcast
    /\ NoLoad
    /\ NoMessage
    /\ NoIgnore

\* main up to the loop: the monitor is built (block-lists loaded, patterns
\* compiled), then the log file is looked up once; without it main returns,
\* with it last_size starts at the file's size and the loop is entered.
MainStartup ==
    /\ pc = "startup"
    /\ \E fault \in StartupFaults :
         IF startup_aborts(fault)
         THEN /\ pc' = "exit"
              /\ startup_error' = fault
              /\ startup_log' = startup_log_lines(fault)
              /\ UNCHANGED <<last_size, startup_size>>
         ELSE IF file_exists
              THEN /\ last_size' = initial_offset(Len(file))
                   /\ startup_size' = Len(file)
                   /\ pc' = "exists"
                   /\ startup_error' = fault
                   /\ startup_log' = startup_log_lines(fault)
              ELSE /\ pc' = "exit"
                   /\ startup_error' = "log_missing"
                   /\ startup_log' = startup_log_lines(fault) \o startup_log_lines("log_missing")
                   /\ UNCHANGED <<last_size, startup_size>>
    /\ UNCHANGED <<bcVars, ldVars, clVars, aiVars, writer, monitor, envVars, callVars, prev_error, quiet, no_change,
                   gen_seen, high_water, sleep_ms, cancelled>>

\* The end of a call of check_for_spam: main goes on to its sleep.
EndCall == /\ pc' = "sleep"
           /\ no_change' = quiet
           /\ quiet' = TRUE
           /\ gen_seen' = gen

\* check_for_spam is entered: if not log_file.exists(): log and return.
PollExists ==
    /\ pc = "exists"
    /\ prev_error' = IF sleep_ms = 0 THEN "nopoll" ELSE error
    /\ pre_size' = last_size
    /\ current_size' = 0
    /\ new_content' = <<>>
    /\ emitted' = <<>>
    /\ analysed' = {}
    /\ truncated' = FALSE
    /\ did_read' = FALSE
    /\ seek_pos' = 0
    /\ size_at_read' = 0
    /\ read_gen' = 0
    /\ rotated' = (gen > gen_seen)
    /\ prev_high' = 0
    /\ IF file_exists
       THEN /\ error' = "none"
            /\ pc' = "stat"
            /\ UNCHANGED <<quiet, no_change, gen_seen>>
       ELSE /\ error' = "missing"
            /\ EndCall
    /\ UNCHANGED <<bcVars, ldVars, clVars, aiVars, writer, startup_error, startup_log, monitor, envVars, startup_size, last_size, high_water, sleep_ms, cancelled>>

\* current_size = log_file.stat().st_size, the truncation test and the test
\* for new data.  stat raises if the file has gone since exists().
PollStat ==
    /\ pc = "stat"
    /\ IF file_exists
       THEN /\ current_size' = Len(file)
            /\ truncated' = (Len(file) < last_size)
            /\ last_size' = reset_on_truncation(Len(file), last_size)
            /\ IF has_new_data(Len(file), last_size')
               THEN /\ pc' = "open"
                    /\ UNCHANGED <<quiet, no_change, gen_seen>>
               ELSE EndCall
            /\ UNCHANGED error
       ELSE /\ error' = "io"
            /\ EndCall
            /\ UNCHANGED <<current_size, truncated, last_size>>
    /\ UNCHANGED <<bcVars, ldVars, clVars, aiVars, writer, startup_error, startup_log, monitor, envVars, startup_size, new_content, emitted, analysed, pre_size,
                   did_read, seek_pos, size_at_read, read_gen, rotated, prev_high,
                   high_water, prev_error, sleep_ms, cancelled>>

\* open(log_file, 'r'): raises if the file has gone or is locked by its
\* writer.
PollOpen ==
    /\ pc = "open"
    /\ \E locked \in BOOLEAN :
         IF file_exists /\ ~locked
         THEN /\ pc' = "read"
              /\ UNCHANGED <<error, last_size, quiet, no_change, gen_seen>>
         ELSE /\ error' = "io"
              /\ last_size' = offset_on_io_error(last_size, current_size)
              /\ EndCall
    /\ UNCHANGED <<bcVars, ldVars, clVars, aiVars, writer, startup_error, startup_log, monitor, envVars, startup_size, current_size, new_content,
                   emitted, analysed, pre_size, truncated, did_read, seek_pos, size_at_read,
                   read_gen, rotated, prev_high, high_water, prev_error, sleep_ms, cancelled>>

\* file.seek(self.last_size); new_content = file.read();
\* self.last_size = current_size; then the loop over the lines.
PollRead ==
    /\ pc = "read"
    /\ \E fails \in BOOLEAN :
         IF fails
         THEN /\ error' = "io"
              /\ last_size' = offset_on_io_error(last_size, current_size)
              /\ UNCHANGED <<new_content, emitted, analysed, did_read, seek_pos,
                             size_at_read, read_gen, prev_high, high_water>>
         ELSE /\ new_content' = read_from(file, last_size)
              /\ last_size' = current_size
              /\ emitted' = scan(monitor, Hosts, new_content')
              /\ analysed' = analysed_lines(monitor, Hosts, new_content')
              /\ error' = scan_error(monitor, new_content')
              /\ did_read' = TRUE
              /\ seek_pos' = last_size
              /\ size_at_read' = Len(file)
              /\ read_gen' = gen
              /\ prev_high' = high_water
              /\ high_water' = read_end(high_water, last_size, Len(new_content'))
    /\ EndCall
    /\ UNCHANGED <<bcVars, ldVars, clVars, aiVars, writer, startup_error, startup_log, monitor, envVars, startup_size, current_size, pre_size,
                   truncated, rotated, prev_error, sleep_ms, cancelled>>

\* main after the call: sleep, then the next iteration of while True.
MainSleep ==
    /\ pc = "sleep"
    /\ sleep_ms' = sleep_after(error)
    /\ pc' = IF loop_continues(error) THEN "exists" ELSE "exit"
    /\ UNCHANGED <<bcVars, ldVars, clVars, aiVars, writer, startup_error, startup_log, monitor, envVars, startup_size, last_size, callVars,
                   prev_error, quiet, no_change, gen_seen, high_water, cancelled>>

\* KeyboardInterrupt or task cancellation, delivered at the await of the
\* sleep.
Cancel ==
    /\ pc = "sleep"
    /\ pc' = "stopped"
    /\ cancelled' = TRUE
    /\ UNCHANGED <<bcVars, ldVars, clVars, aiVars, writer, startup_error, startup_log, monitor, envVars, startup_size, last_size, callVars,
                   prev_error, quiet, no_change, gen_seen, high_water, sleep_ms>>

(***************************************************************************)
(* The game client, which owns the log file.                               *)
(***************************************************************************)
EnvFrame == /\ quiet' = FALSE
            /\ UNCHANGED <<bcVars, ldVars, clVars, aiVars, writer, startup_error, startup_log, monitor, startup_size, last_size, pc, callVars,
                           prev_error, no_change, gen_seen, sleep_ms, cancelled>>

\* The game client flushes one chunk of text to the log.
GameAppend ==
    /\ pc \in LoopPcs
    /\ file_exists
    /\ appends < MaxAppends
    /\ \E chunk \in chunks_of(writer) : file' = file \o chunk
    /\ appends' = appends + 1
    /\ UNCHANGED <<file_exists, gen, high_water>>
    /\ EnvFrame

\* The game client truncates the log in place.
GameTruncate ==
    /\ pc \in LoopPcs
    /\ file_exists
    /\ file # <<>>
    /\ gen < MaxRotations
    /\ file' = <<>>
    /\ gen' = gen + 1
    /\ high_water' = 0
    /\ UNCHANGED <<file_exists, appends>>
    /\ EnvFrame

\* The game client deletes the log (not while the tailer holds it open).
GameRemove ==
    /\ pc \in LoopPcs \ {"read"}
    /\ file_exists
    /\ gen < MaxRotations
    /\ file_exists' = FALSE
    /\ file' = <<>>
    /\ gen' = gen + 1
    /\ high_water' = 0
    /\ UNCHANGED appends
    /\ EnvFrame

\* The game client creates a new, empty log.
GameCreate ==
    /\ pc \in LoopPcs
    /\ ~file_exists
    /\ file_exists' = TRUE
    /\ UNCHANGED <<file, gen, appends, high_water>>
    /\ EnvFrame

Next ==
    \/ MainStartup
    \/ PollExists
    \/ PollStat
    \/ PollOpen
    \/ PollRead
    \/ MainSleep
    \/ Cancel
    \/ GameAppend
    \/ GameTruncate
    \/ GameRemove
    \/ GameCreate

Spec == Init /\ [][Next]_vars

\* The poll loop of CoreSpamMonitor with a game client that flushes in the
\* middle of lines.
InitFlush ==
    /\ monitor = "core"
    /\ writer = "flushes"
    /\ file_exists \in BOOLEAN
    /\ file = <<>>
    /\ TailerInit
    /\ plugins = <<>>
    /\ NoBroadcast
    /\ NoLoad
    /\ NoMessage
    /\ NoIgnore

SpecFlush == InitFlush /\ [][Next]_vars

\* The poll loop with a game client that writes lines the loop has to skip.
InitNoisy ==
    /\ monitor \in {"core", "client"}
    /\ writer = "noisy"
    /\ file_exists \in BOOLEAN
    /\ file = <<>>
    /\ TailerInit
    /\ plugins = <<>>
    /\ NoBroadcast
    /\ NoLoad
    /\ NoMessage
    /\ NoIgnore

SpecNoisy == InitNoisy /\ [][Next]_vars

\* Weak fairness of PollRead, with ENABLED <<PollRead>>_vars written out: the
\* step is possible exactly when the call is at the read, since either
\* outcome of the read moves pc on.
ReadFairness == []<>(pc # "read") \/ []<><<PollRead>>_vars

\* The event loop runs the monitoring task whenever it is ready: each step of
\* the call and the wake-up after asyncio.sleep is eventually taken.  The
\* game client and the cancellation are under no obligation.
FairSpec ==
    /\ Spec
    /\ WF_vars(PollExists)
    /\ WF_vars(PollStat)
    /\ WF_vars(PollOpen)
    /\ ReadFairness
    /\ WF_vars(MainSleep)

(***************************************************************************)
(* The plugin registry on its own: a PluginLoader holding any registry of  *)
(* at most MaxPlugins handlers, and calls of call_plugin_method on it.     *)
(***************************************************************************)
InitBroadcast ==
    /\ monitor = "core"
    /\ writer = "lines"
    /\ file_exists = FALSE
    /\ file = <<>>
    /\ TailerInit
    /\ plugins \in {registry_of(kinds) : kinds \in Registries}
    /\ NoBroadcast
    /\ NoLoad
    /\ NoMessage
    /\ NoIgnore

\* call_plugin_method(method_name, report): the whole for loop.
CallPluginMethod ==
    /\ \E method_name \in MethodNames :
         LET called == pick(plugins, reached(plugins, method_name))
         IN  /\ bc_method' = method_name
             /\ bc_calls' = [j \in 1..Len(called) |-> called[j].name]
             /\ bc_log' = [j \in 1..Len(called) |-> log_line(called[j])]
             /\ bc_raised' = broadcast_raises(plugins, method_name)
             /\ plugins' = registry_after_call(plugins, method_name)
    /\ UNCHANGED <<ldVars, clVars, monitor, writer, startup_error, startup_log, envVars, startup_size,
                   last_size, pc, callVars,
                   prev_error, quiet, no_change, gen_seen, high_water, sleep_ms, cancelled,
                   aiVars>>

NextBroadcast == CallPluginMethod

SpecBroadcast == InitBroadcast /\ [][NextBroadcast]_vars

(***************************************************************************)
(* Plugin loading on its own: a new PluginLoader, the plugin files as they *)
(* are on disk, and one call of load_enabled_plugins with the enabled      *)
(* names of the configuration.                                             *)
(***************************************************************************)
InitLoad ==
    /\ monitor = "core"
    /\ writer = "lines"
    /\ file_exists = FALSE
    /\ file = <<>>
    /\ TailerInit
    /\ plugins = <<>>
    /\ NoBroadcast
    /\ requested \in RequestLists
    /\ world \in [ConformingNames -> LoadOutcomes]
    /\ ld_done = FALSE
    /\ ld_attempted = <<>>
    /\ ld_log = <<>>
    /\ ld_raised = FALSE
    /\ NoMessage
    /\ NoIgnore

\* load_enabled_plugins(enabled_plugins): the whole for loop, with the
\* calls of load_plugin it makes.
LoadEnabledPlugins ==
    /\ ~ld_done
    /\ ld_done' = TRUE
    /\ ld_attempted' = pick(requested, attempted(requested, world))
    /\ plugins' = [j \in 1..Len(loaded_names(requested, world)) |->
                      [name |-> loaded_names(requested, world)[j], kind |-> "true"]]
    /\ ld_log' = load_log(requested, world)
    /\ ld_raised' = load_raises(requested, world)
    /\ UNCHANGED <<requested, world, bc_method, bc_calls, bc_log, bc_raised, clVars,
                   monitor, writer, startup_error, startup_log, envVars, startup_size,
                   last_size, pc, callVars,
                   prev_error, quiet, no_change, gen_seen, high_water, sleep_ms, cancelled,
                   aiVars>>

NextLoad == LoadEnabledPlugins

SpecLoad == InitLoad /\ [][NextLoad]_vars

(***************************************************************************)
(* The classifier on its own: a monitor compiled from a block-list, a      *)
(* second one compiled from the same block-list iterated in an order of    *)
(* its own, and a message.                                                 *)
(***************************************************************************)
InitClassify ==
    /\ monitor = "core"
    /\ writer = "lines"
    /\ file_exists = FALSE
    /\ file = <<>>
    /\ TailerInit
    /\ plugins = <<>>
    /\ NoBroadcast
    /\ NoLoad
    /\ \E S \in HostSets : /\ cl_hosts \in orders(S)
                           /\ cl_hosts_again \in orders(S)
    /\ cl_handles = <<>>
    /\ cl_handles_other = <<>>
    /\ cl_message \in Messages
    /\ NoClassify
    /\ NoIgnore

\* analyse_spam_content(message) on both monitors.
Classify ==
    /\ ~cl_done
    /\ cl_done' = TRUE
    /\ \E raises \in BOOLEAN :
         /\ cl_raises' = raises
         /\ cl_verdict' = analyse_spam_content_guarded(cl_hosts, cl_message, raises)
         /\ cl_verdict_again' = analyse_spam_content_guarded(cl_hosts_again, cl_message, raises)
    /\ UNCHANGED <<cl_hosts, cl_hosts_again, cl_handles, cl_handles_other, cl_message,
                   cl_verdict_listed, cl_verdict_other,
                   cl_scanned, cl_faulty, cl_emitted, cl_error, bcVars, ldVars,
                   monitor, writer, startup_error, startup_log, envVars, startup_size,
                   last_size, pc, callVars,
                   prev_error, quiet, no_change, gen_seen, high_water, sleep_ms, cancelled,
                   aiVars>>

\* The loop of check_for_spam over the two lines of batch(cl_message).
ScanBatch ==
    /\ ~cl_scanned
    /\ cl_scanned' = TRUE
    /\ \E faulty \in SUBSET {1, 2} :
         /\ cl_faulty' = faulty
         /\ cl_emitted' = core_scan_guarded(cl_hosts, batch(cl_message), faulty)
         /\ cl_error' = core_scan_guarded_error(cl_hosts, batch(cl_message), faulty)
    /\ UNCHANGED <<cl_hosts, cl_hosts_again, cl_handles, cl_handles_other, cl_message,
                   cl_done, cl_raises, cl_verdict, cl_verdict_again, cl_verdict_listed,
                   cl_verdict_other,
                   bcVars, ldVars,
                   monitor, writer, startup_error, startup_log, envVars, startup_size,
                   last_size, pc, callVars,
                   prev_error, quiet, no_change, gen_seen, high_water, sleep_ms, cancelled,
                   aiVars>>

NextClassify == Classify \/ ScanBatch

SpecClassify == InitClassify /\ [][NextClassify]_vars

(***************************************************************************)
(* Two monitors built with the same hosts and with handle lists of their   *)
(* own, and a message.                                                     *)
(***************************************************************************)
InitHandles ==
    /\ monitor = "core"
    /\ writer = "lines"
    /\ file_exists = FALSE
    /\ file = <<>>
    /\ TailerInit
    /\ plugins = <<>>
    /\ NoBroadcast
    /\ NoLoad
    /\ cl_hosts = Hosts
    /\ cl_hosts_again = Hosts
    /\ cl_handles \in HandleLists
    /\ cl_handles_other \in HandleLists
    /\ cl_message \in Messages
    /\ NoClassify
    /\ NoIgnore

\* analyse_spam_content(message) on the two monitors.
ClassifyHandles ==
    /\ ~cl_done
    /\ cl_done' = TRUE
    /\ \E raises \in BOOLEAN :
         /\ cl_raises' = raises
         /\ cl_verdict_listed' = verdict_of(monitor_of(cl_hosts, cl_handles),
                                            cl_message, raises)
         /\ cl_verdict_other' = verdict_of(monitor_of(cl_hosts, cl_handles_other),
                                           cl_message, raises)
    /\ UNCHANGED <<cl_hosts, cl_hosts_again, cl_handles, cl_handles_other, cl_message,
                   cl_verdict, cl_verdict_again,
                   cl_scanned, cl_faulty, cl_emitted, cl_error, bcVars, ldVars,
                   monitor, writer, startup_error, startup_log, envVars, startup_size,
                   last_size, pc, callVars,
                   prev_error, quiet, no_change, gen_seen, high_water, sleep_ms, cancelled,
                   aiVars>>

NextHandles == ClassifyHandles

SpecHandles == InitHandles /\ [][NextHandles]_vars

(***************************************************************************)
(* The auto_ignore handler on its own: a report and one call of            *)
(* process_spam on it.                                                     *)
(***************************************************************************)
InitIgnore ==
    /\ monitor = "core"
    /\ writer = "lines"
    /\ file_exists = FALSE
    /\ file = <<>>
    /\ TailerInit
    /\ plugins = <<>>
    /\ NoBroadcast
    /\ NoLoad
    /\ NoMessage
    /\ ai_report \in [player : Players, spam_details : [is_spam : BOOLEAN]]
    /\ ai_build \in Builds
    /\ ai_done = FALSE
    /\ ai_keys = <<>>
    /\ ai_result = "none"
    /\ ai_log = <<>>

\* The module is imported and process_spam(spam_results) is called.
ProcessSpam ==
    /\ ~ai_done
    /\ ai_done' = TRUE
    /\ IF module_compiles(ai_build)
       THEN /\ ai_result' = process_spam_result(ai_report)
            /\ ai_keys' = process_spam_keys(ai_report)
            /\ ai_log' = process_spam_log(ai_report)
       ELSE /\ ai_result' = "SyntaxError"
            /\ UNCHANGED <<ai_keys, ai_log>>
    /\ UNCHANGED <<ai_report, ai_build, bcVars, ldVars, clVars, monitor, writer,
                   startup_error, startup_log, envVars, startup_size, last_size, pc,
                   callVars, prev_error, quiet, no_change, gen_seen, high_water,
                   sleep_ms, cancelled>>

NextIgnore == ProcessSpam

SpecIgnore == InitIgnore /\ [][NextIgnore]_vars

(***************************************************************************)
(* The poll loop of CoreSpamMonitor next to calls of analyse_spam_content  *)
(* and of call_plugin_method on a loader with two handlers.                *)
(***************************************************************************)
InitFrame ==
    /\ monitor = "core"
    /\ writer = "lines"
    /\ file_exists = TRUE
    /\ file = SpamLineA
    /\ TailerInit
    /\ plugins = registry_of(<<"raise", "true">>)
    /\ NoBroadcast
    /\ NoLoad
    /\ cl_hosts = Hosts
    /\ cl_hosts_again = Hosts
    /\ cl_handles = <<>>
    /\ cl_handles_other = <<>>
    /\ cl_message = F_discord
    /\ NoClassify
    /\ NoIgnore

NextFrame ==
    \/ MainStartup
    \/ PollExists
    \/ PollStat
    \/ PollOpen
    \/ PollRead
    \/ MainSleep
    \/ GameAppend
    \/ Classify
    \/ CallPluginMethod

SpecFrame == InitFrame /\ [][NextFrame]_vars

(***************************************************************************)
(* Properties.                                                             *)
(***************************************************************************)

\* The reports of all the lines of a text that are candidates with a spam
\* verdict, in file order.
all_spam_reports(hosts, content) ==
    LET reps == SelectSeq([k \in 1..Len(splitlines(content)) |->
                              line_report(hosts, splitlines(content)[k])],
                          LAMBDA r : r # <<>>)
    IN  [j \in 1..Len(reps) |-> reps[j][1]]

\* C1: a call of CoreSpamMonitor.check_for_spam that has read new text emits
\* one report for every spam line of that text, in file order: k spam lines
\* give k reports.
C1_EverySpamLineReported ==
    (pc = "sleep" /\ monitor = "core" /\ did_read)
        => emitted = all_spam_reports(Hosts, new_content)

\* C2 as stated: a poll that observes a size below last_size has last_size
\* at 0 before it reads, reads from byte 0 and not past the end of the file,
\* opens and reads it without an I/O error, and ends with last_size equal to
\* the observed size.
C2_TruncationRecoveryNeverFails ==
    truncated =>
        /\ (pc \in {"open", "read"} => last_size = 0)
        /\ (did_read => seek_pos = 0 /\ seek_pos <= size_at_read)
        /\ (pc = "sleep" => error # "io" /\ last_size = current_size)

\* C2 amended: as above, except that when opening or reading the file
\* raises, the poll ends with last_size at 0.
C2_TruncationRecovery ==
    truncated =>
        /\ (pc \in {"open", "read"} => last_size = 0)
        /\ (did_read => seek_pos = 0 /\ seek_pos <= size_at_read)
        /\ (pc = "sleep" => IF error = "io" THEN last_size = 0
                            ELSE last_size = current_size)

\* A poll saw the file shrunk to a size that is not 0, and read it from 0.
C2_Witness ==
    /\ truncated
    /\ pc = "sleep"
    /\ did_read
    /\ current_size > 0
    /\ pre_size > current_size
    /\ last_size = current_size

\* C3: where a poll seeks and reads, last_size is at most the size the file
\* has at that moment.
C3_SeekWithinFile == did_read => seek_pos <= size_at_read

\* C4: last_size is never negative, and a step lowers it only if it is the
\* stat step of a poll that finds the file smaller than last_size, and then
\* to 0.
C4_OffsetMonotonic ==
    [][/\ last_size >= 0
       /\ last_size' >= 0
       /\ \/ last_size' >= last_size
          \/ /\ pc = "stat"
             /\ file_exists
             /\ Len(file) < last_size
             /\ last_size' = 0]_vars

\* A poll reset the offset on truncation and then advanced it again.
C4_Witness ==
    /\ truncated
    /\ pre_size > 0
    /\ did_read
    /\ pc = "sleep"
    /\ last_size > 0

\* C5: a poll that follows a poll which ended without error, with the file
\* left untouched since that poll ended, reads nothing, emits nothing and
\* leaves last_size as it was.
C5_SecondPollIsNoOp ==
    (pc = "sleep" /\ prev_error = "none" /\ no_change)
        => (~did_read /\ emitted = <<>> /\ last_size = pre_size)

\* C6: main enters the loop with last_size at the size the file has at
\* startup, and as long as the file is the one found at startup no poll
\* reads a byte that was in it then.
C6_NoReplayOfStartupContent ==
    /\ (pc = "exists" /\ sleep_ms = 0 => last_size = startup_size)
    /\ (did_read /\ read_gen = 0 => seek_pos >= startup_size)

\* A poll read from a file that held a line at startup.
C6_Witness ==
    /\ did_read
    /\ read_gen = 0
    /\ startup_size > 0
    /\ new_content # <<>>

\* C7 as stated: a poll that found the file missing, or whose stat, open or
\* read raised, leaves last_size as it was when the poll began and emits no
\* report.
C7_IoErrorLeavesOffset ==
    (pc = "sleep" /\ error \in {"missing", "io"})
        => (last_size = pre_size /\ emitted = <<>>)

\* C7 amended: such a poll emits no report and leaves last_size as it was,
\* or at 0 if it detected truncation before the error.
C7_IoErrorLeavesOffsetOrReset ==
    (pc = "sleep" /\ error \in {"missing", "io"})
        => /\ emitted = <<>>
           /\ \/ last_size = pre_size
              \/ truncated /\ last_size = 0

\* The open or read of a poll raised after the poll had detected truncation.
C7_Witness ==
    /\ pc = "sleep"
    /\ error = "io"
    /\ truncated
    /\ pre_size > 0
    /\ last_size = 0

\* C8: the sleep that follows an iteration of client.py's loop is the long
\* interval if the iteration logged an error, the short one if not.
C8_BackoffAfterError ==
    (pc = "exists" /\ sleep_ms # 0 /\ monitor = "client")
        => sleep_ms = (IF error # "none" THEN LongInterval ELSE ShortInterval)

\* C9: once in the loop, main leaves it only by cancellation; every call of
\* check_for_spam ends, and after every call, failed or not, the next one
\* starts unless main is cancelled.
C9_LoopGoesOn ==
    /\ [][(pc \in LoopPcs) => ((pc' \in LoopPcs) \/ cancelled')]_vars
    /\ [](pc \in LoopPcs => <>(pc = "sleep" \/ cancelled))
    /\ [](pc = "sleep" => <>(pc = "exists" \/ cancelled))

\* An iteration whose call logged an error is over and the next call is
\* about to start.
C9_Witness ==
    /\ pc = "exists"
    /\ sleep_ms # 0
    /\ error \in {"io", "attr", "missing"}

\* C10: call_plugin_method calls the method once on every handler that has
\* it, in registry order, whatever the handlers before it returned or
\* raised; it logs one line per call, chosen by what the call did; and no
\* exception leaves it.
C10_BroadcastIsolation ==
    bc_method # "none" =>
        LET having == {k \in 1..Len(plugins) :
                          bc_method = "process_spam" /\ plugins[k].kind # "none"}
        IN  /\ bc_calls = pick([k \in 1..Len(plugins) |-> plugins[k].name], having)
            /\ Len(bc_log) = Len(bc_calls)
            /\ \A j \in 1..Len(bc_log) :
                  /\ bc_log[j][1] = bc_calls[j]
                  /\ bc_log[j][2] =
                       (CASE plugins[bc_calls[j]].kind = "true"  -> "processed successfully"
                          [] plugins[bc_calls[j]].kind = "false" -> "failed to process"
                          [] plugins[bc_calls[j]].kind = "raise" -> "Error calling")
            /\ ~bc_raised

\* A handler raised, a handler returned False, and a handler behind both was
\* still called.
C10_Witness ==
    /\ bc_method = "process_spam"
    /\ Len(plugins) = 3
    /\ plugins[1].kind = "raise"
    /\ plugins[2].kind = "false"
    /\ plugins[3].kind = "true"
    /\ bc_calls = <<1, 2, 3>>

\* C11: a call of load_enabled_plugins on a new loader raises nothing; it
\* hands every requested name of the convention to load_plugin, whatever
\* the loads before it did; a load that fails is logged as a failure and
\* leaves its name out of the registry; the registry holds exactly the
\* names of the convention whose load succeeded.
C11_LoadIsolation ==
    ld_done =>
        /\ ~ld_raised
        /\ ld_attempted = SelectSeq(requested, LAMBDA n : n \in ConformingNames)
        /\ {plugins[j].name : j \in 1..Len(plugins)}
             = {requested[k] : k \in {i \in 1..Len(requested) :
                                        /\ requested[i] \in ConformingNames
                                        /\ world[requested[i]] = "ok"}}
        /\ \A k \in 1..Len(requested) :
              (requested[k] \in ConformingNames /\ world[requested[k]] # "ok")
                  => \E j \in 1..Len(ld_log) :
                        /\ ld_log[j][1] = requested[k]
                        /\ ld_log[j][2] \notin {"Successfully loaded plugin", "Skipping"}

\* A load failed by an exception, and a name behind it was loaded.
C11_Witness ==
    /\ ld_done
    /\ Len(requested) = 3
    /\ requested[1] = Name_a
    /\ world[Name_a] = "ctor_raises"
    /\ requested[2] = Name_auto
    /\ requested[3] = Name_b
    /\ Len(plugins) = 1
    /\ plugins[1].name = Name_b

\* C18: load_enabled_plugins hands no name to load_plugin that does not
\* start with cplugin_, logs a warning for each such name, and leaves a
\* registry whose keys all start with cplugin_.
C18_NamingConvention ==
    ld_done =>
        /\ \A j \in 1..Len(ld_attempted) : LitAt(ld_attempted[j], 1, L_cplugin)
        /\ \A j \in 1..Len(plugins) : LitAt(plugins[j].name, 1, L_cplugin)
        /\ \A k \in 1..Len(requested) :
              ~LitAt(requested[k], 1, L_cplugin)
                  => \E j \in 1..Len(ld_log) : ld_log[j] = <<requested[k], "Skipping">>

\* Names outside the convention were requested, among them one that begins
\* with cplugin, and only the name inside it was loaded.
C18_Witness ==
    /\ ld_done
    /\ Len(requested) = 3
    /\ requested[1] = Name_bare
    /\ requested[2] = Name_auto
    /\ requested[3] = Name_a
    /\ Len(plugins) = 1
    /\ plugins[1].name = Name_a

\* The matches of one category in the lowered message of the classifier
\* call, under the first compilation.
matches_of(cat) == findall(cat, cl_hosts, lower(cl_message))

\* C12: when applying the rules raises, analyse_spam_content returns the
\* verdict {is_spam: False} and raises nothing; the loop of check_for_spam
\* gives for a batch with such lines what it gives for the batch without
\* them, and ends without an error.
C12_ClassificationContained ==
    /\ (cl_done /\ cl_raises) => (cl_verdict = [is_spam |-> FALSE])
    /\ cl_scanned =>
          /\ cl_error = "none"
          /\ cl_emitted = core_scan(cl_hosts, pick(batch(cl_message), {1, 2} \ cl_faulty))

\* The analysis of a first line that would have been spam raised, and the
\* spam line behind it was reported.
C12_Witness ==
    /\ cl_scanned
    /\ cl_faulty = {1}
    /\ cl_message = F_discord
    /\ Len(cl_emitted) = 1
    /\ cl_emitted[1].player = <<"q">>
    /\ cl_emitted[1].message = F_currency

\* C13: the verdict of analyse_spam_content has is_spam true exactly if
\* some category has a match, and with no match in any category it is
\* is_spam false with every field empty.
C13_SpamIffSomeMatch ==
    (cl_done /\ ~cl_raises) =>
        /\ cl_verdict.is_spam <=> (\E cat \in Categories : matches_of(cat) # <<>>)
        /\ (\A cat \in Categories : matches_of(cat) = <<>>)
              => cl_verdict = [is_spam |-> FALSE, detected_urls |-> <<>>,
                               detected_discord |-> <<>>, currency_offers |-> <<>>,
                               coupon_codes |-> <<>>]

\* A message whose only match is a coupon code got is_spam true.
C13_Witness ==
    /\ cl_done
    /\ ~cl_raises
    /\ cl_message = F_coupon
    /\ cl_verdict.is_spam
    /\ cl_verdict.coupon_codes = << <<<<"a">>, <<"5">>>> >>
    /\ cl_verdict.detected_urls = <<>>
    /\ cl_verdict.detected_discord = <<>>
    /\ cl_verdict.currency_offers = <<>>

\* C14: every field of the verdict holds the matches of its own category,
\* whatever the other categories matched.
C14_NoShortCircuit ==
    (cl_done /\ ~cl_raises) =>
        /\ cl_verdict.detected_urls = matches_of("url")
        /\ cl_verdict.detected_discord = matches_of("discord")
        /\ cl_verdict.currency_offers = matches_of("currency")
        /\ cl_verdict.coupon_codes = matches_of("coupon")

\* One message gave a url, a discord handle and a coupon code at once.
C14_Witness ==
    /\ cl_done
    /\ ~cl_raises
    /\ cl_verdict.is_spam
    /\ cl_verdict.detected_urls = <<<<"w", "w", "w", ".", "s", "c", "a", "m", ".", "c", "o", "m">>>>
    /\ cl_verdict.detected_discord = << <<"z">> >>
    /\ cl_verdict.coupon_codes = << <<<<"a">>, <<"5">>>> >>

\* The literal occurs in s, letter case aside.
occurs(lit, s) == \E i \in 1..Len(s) : LitAtCI(s, i, lit)

\* C15: a message in which no host of the block-list occurs, nor discord,
\* nor ex/ or div/, nor coupon or code, gets is_spam false and empty
\* fields; and detected_urls is not empty only if a host of the block-list
\* occurs in the message.
C15_CleanMessageNotSpam ==
    (cl_done /\ ~cl_raises) =>
        /\ (/\ \A k \in 1..Len(cl_hosts) : ~occurs(cl_hosts[k], cl_message)
            /\ ~occurs(L_discord, cl_message)
            /\ ~occurs(L_ex \o <<"/">>, cl_message)
            /\ ~occurs(L_div \o <<"/">>, cl_message)
            /\ ~occurs(L_coupon, cl_message)
            /\ ~occurs(L_code, cl_message))
              => cl_verdict = [is_spam |-> FALSE, detected_urls |-> <<>>,
                               detected_discord |-> <<>>, currency_offers |-> <<>>,
                               coupon_codes |-> <<>>]
        /\ cl_verdict.detected_urls # <<>>
              => \E k \in 1..Len(cl_hosts) : occurs(cl_hosts[k], cl_message)

\* C20: two compilations from the same set of hosts, each iterating the set
\* in an order of its own, give the same is_spam and the same detected_urls
\* on every message.
C20_CompilationOrderIrrelevant ==
    (cl_done /\ ~cl_raises) =>
        /\ cl_verdict.is_spam = cl_verdict_again.is_spam
        /\ cl_verdict.detected_urls = cl_verdict_again.detected_urls

\* text is the one line [INFO Client <id>] <player>: <message> and its
\* newline, with the id ending before position b and the player before
\* position c.
well_formed(text, b, c) ==
    /\ Len(text) >= c + 3
    /\ b > Len(MARKER) + 2
    /\ c > b + 2
    /\ LitAt(text, b, <<"]", " ">>)
    /\ LitAt(text, c, <<":", " ">>)
    /\ LitAt(text, 1, MARKER \o <<" ">>)
    /\ \A k \in (Len(MARKER) + 2)..(b - 1) : text[k] \in Digits
    /\ \A k \in (b + 2)..(c - 1) : text[k] # ":"
    /\ text[Len(text)] = "\n"
    /\ \A k \in 1..(Len(text) - 1) : text[k] # "\n"

\* name without the characters before its first letter or digit.
without_leading_glyphs(name) ==
    LET alnum == {k \in 1..Len(name) : name[k] \in AlphaNum}
    IN  IF alnum = {} THEN <<>>
        ELSE Slice(name, CHOOSE k \in alnum : \A j \in alnum : k <= j, Len(name) + 1)

\* C16: a poll of CoreSpamMonitor whose new text is one well-formed line
\* with a spam message emits exactly one report: the player is the name
\* between the id and the colon without its leading non-alphanumeric
\* characters, the message is the text behind the colon, and the verdict is
\* what analyse_spam_content gives for that message.
C16_OneLineOneReport ==
    (pc = "sleep" /\ monitor = "core" /\ did_read) =>
        \A b, c \in 1..Len(new_content) :
            (/\ well_formed(new_content, b, c)
             /\ analyse_spam_content(Hosts, Slice(new_content, c + 2, Len(new_content))).is_spam)
              => emitted =
                   << [player |-> without_leading_glyphs(Slice(new_content, b + 2, c)),
                       message |-> Slice(new_content, c + 2, Len(new_content)),
                       spam_details |-> analyse_spam_content(
                                            Hosts, Slice(new_content, c + 2, Len(new_content)))] >>

\* A poll read the one line of player *q and reported it under the name q.
C16_Witness ==
    /\ pc = "sleep"
    /\ monitor = "core"
    /\ did_read
    /\ new_content = SpamLineB
    /\ Len(emitted) = 1
    /\ emitted[1].player = <<"q">>
    /\ emitted[1].message = <<"e", "x", "/", "1", "$">>
    /\ emitted[1].spam_details.currency_offers = << <<"e", "x", "/", "1">> >>

\* C17: a poll classifies no line that is not yet ended by a newline: when
\* the text it read stops in the middle of a line, that last piece is not
\* handed to analyse_spam_content.
C17_PartialLineNotClassified ==
    (pc = "sleep" /\ did_read /\ new_content # <<>>
        /\ new_content[Len(new_content)] # "\n")
        => Len(splitlines(new_content)) \notin analysed

\* C19: when a block-list file is missing, compile_patterns raises or the
\* log file is not there at startup, main logs it, ends without entering
\* the loop, and no poll is ever made.
C19_StartupErrorsFatal ==
    /\ [](startup_error # "none" =>
            /\ pc = "exit"
            /\ startup_log # <<>>
            /\ prev_error = "nopoll"
            /\ sleep_ms = 0
            /\ ~did_read)
    /\ [][pc = "exit" => pc' = "exit"]_vars

\* main found a block-list file missing although the log file was there.
C19_Witness ==
    /\ startup_error = "lists_missing"
    /\ file_exists
    /\ pc = "exit"

\* C26: two monitors built with the same hosts and different handle lists
\* give the same verdict on every message, and a discord mention is flagged
\* whether its handle is on the first monitor's list or not.
C26_HandlesListIrrelevant ==
    cl_done =>
        /\ cl_verdict_listed = cl_verdict_other
        /\ (~cl_raises /\ findall("discord", cl_hosts, lower(cl_message)) # <<>>)
              => cl_verdict_listed.is_spam

\* A mention of the handle z was flagged by a monitor that lists z and by a
\* monitor that lists only q.
C26_Witness ==
    /\ cl_done
    /\ ~cl_raises
    /\ cl_message = F_discord
    /\ cl_handles = <<D_z>>
    /\ cl_handles_other = <<D_q>>
    /\ cl_verdict_listed.detected_discord = <<D_z>>
    /\ cl_verdict_other.detected_discord = <<D_z>>

\* C21: a poll that starts after the game client truncated or replaced the
\* log since the previous poll ended, and that meets no I/O error, restarts
\* from offset 0 whatever size the new file has by then: if it reads, it
\* reads from byte 0, and if it finds nothing to read, it leaves last_size
\* at 0.
C21_RotationRestartsAtZero ==
    (pc = "sleep" /\ rotated /\ error \notin {"missing", "io"})
        => IF did_read THEN seek_pos = 0 ELSE last_size = 0

\* C22: as long as the log was never truncated or replaced, no poll reads a
\* byte that an earlier poll has read: every read starts at or behind the
\* point the earlier reads have got to.
C22_NoByteReadTwice ==
    (did_read /\ read_gen = 0) => seek_pos >= prev_high

\* C23: a call of SpamMonitor.check_for_spam of client.py that has read new
\* text logs one report for every spam line of that text.
C23_ClientReportsSpamLines ==
    (pc = "sleep" /\ monitor = "client" /\ did_read)
        => Len(emitted) = Len(all_spam_reports(Hosts, new_content))

\* The positions of the lines that lack the marker or that from_pattern
\* does not match.
skipped_lines(lines) ==
    {k \in 1..Len(lines) : ~has_marker(lines[k]) \/ ~from_pattern_search(lines[k]).ok}

\* C24: the lines of a poll's text that lack the marker or do not match the
\* line pattern are not classified; the poll reports what it reports for the
\* text without them and raises no error; and last_size moves to the size
\* the poll observed, which is the end of what it read unless the file
\* changed under the poll.  A client.py poll that reads only such lines
\* logs no error either.
C24_UnparsedLinesSkipped ==
    (pc = "sleep" /\ did_read) =>
        LET lines == splitlines(new_content)
            skipped == skipped_lines(lines)
        IN  /\ analysed \cap skipped = {}
            /\ monitor = "core" =>
                  /\ emitted = core_scan(Hosts, pick(lines, (1..Len(lines)) \ skipped))
                  /\ error = "none"
            /\ (monitor = "client" /\ skipped = 1..Len(lines)) =>
                  (emitted = <<>> /\ error = "none")
            /\ last_size = current_size
            /\ size_at_read = current_size => last_size = seek_pos + Len(new_content)

\* A poll read a line with the marker alone and a spam line behind it, and
\* reported the spam line.
C24_Witness ==
    /\ pc = "sleep"
    /\ monitor = "core"
    /\ did_read
    /\ new_content = MarkedOnlyLine \o SpamLineB
    /\ analysed = {2}
    /\ error = "none"
    /\ Len(emitted) = 1
    /\ emitted[1].player = <<"q">>
    /\ last_size = Len(new_content)

\* C27: process_spam returns True for every report; for a report that is
\* not spam it has sent no key, and for a spam report it has sent Enter,
\* /ignore and the player, Enter.
C27_ProcessSpamReturnsTrue ==
    ai_done =>
        /\ ai_result = "true"
        /\ ai_keys = (IF ai_report.spam_details.is_spam
                      THEN <<KEY_ENTER>> \o L_ignore \o ai_report.player \o <<KEY_ENTER>>
                      ELSE <<>>)

\* C25: last_size changes only in a step of main's startup or of
\* check_for_spam; the hosts the rules were compiled from never change; and
\* a call of analyse_spam_content or of call_plugin_method leaves
\* last_size, the rules and the plugin registry as they were.
C25_Frame ==
    [][/\ last_size' # last_size => pc \in {"startup", "stat", "open", "read"}
       /\ cl_hosts' = cl_hosts
       /\ cl_hosts_again' = cl_hosts_again
       /\ (cl_done' # cl_done \/ bc_method' # bc_method \/ bc_calls' # bc_calls)
             => /\ last_size' = last_size
                /\ plugins' = plugins]_vars

\* The classifier was called, process_spam was dispatched to a handler that
\* raised and to one that did not, and a poll had moved last_size on.
C25_Witness ==
    /\ cl_done
    /\ cl_verdict.is_spam
    /\ bc_method = "process_spam"
    /\ bc_calls = <<1, 2>>
    /\ plugins = registry_of(<<"raise", "true">>)
    /\ cl_hosts = Hosts
    /\ did_read
    /\ last_size > startup_size
    /\ startup_size > 0
====
